---- MODULE Spec2Model ----
(***************************************************************************)
(* A model of climapy's grid functions (src/climapy/climapy_xr.py).        *)
(*                                                                         *)
(* A grid is a record [lon, lat, data]: lon and lat are the coordinate     *)
(* arrays (sequences of whole degrees, so that +360 and -360 are exact),   *)
(* data[i][j] is the cell at longitude index i and latitude index j.  A    *)
(* cell is <<v>> when it holds the value v and <<>> when it is missing     *)
(* (NaN).  A call's outcome is a record [status, grid]: status "ok" with   *)
(* the returned grid, or the name of the exception with NoGrid.            *)
(*                                                                         *)
(* xarray's roll is modelled as the version the tests were written for:    *)
(* it rolls the coordinate together with the data.                         *)
(***************************************************************************)
EXTENDS Integers, Sequences, FiniteSets

VARIABLES
    pc,          \* which calls have been made
    xr_data,     \* the input grid (xr_data / xr_data_1)
    xr_data_2,   \* the second grid of xr_check_lon_lat_match
    lon_min,     \* xr_shift_lon's lon_min
    lon_bounds,  \* xr_mask_bounds' lon_bounds, <<>> for None
    lat_bounds,  \* xr_mask_bounds' lat_bounds, <<>> for None
    shifted,     \* outcome of xr_shift_lon(xr_data, lon_min)
    shifted2,    \* outcome of the second xr_shift_lon call on shifted
    matched,     \* outcome of xr_check_lon_lat_match(xr_data, xr_data_2)
    inside,      \* outcome of xr_mask_bounds(..., select_how='inside')
    outside,     \* outcome of xr_mask_bounds(..., select_how='outside')
    area,        \* outcome of xr_area(xr_data)
    stat,        \* xr_area_weighted_stat's stat
    grid_names,  \* the names of xr_data's longitude and latitude coordinates
    arg_names,   \* the lon_name and lat_name passed to xr_area_weighted_stat
    kind,        \* xr_data is a "DataArray" or a "Dataset" (of two variables)
    ntime,       \* length of xr_data's time dimension, 0 when it has none
    weighted,    \* outcome of xr_area_weighted_stat
    p_values,    \* stats_fdr's array, a sequence of rows of p-values
    alpha,       \* stats_fdr's alpha
    p_fdr,       \* outcome of stats_fdr
    data,        \* dt_convert_to_datetime64's data, a sequence of days
    ref_year,    \* the year Y of the units 'days since Y-1-1 00:00:00'
    calendar,    \* dt_convert_to_datetime64's calendar
    converted,   \* outcome of dt_convert_to_datetime64
    cesm_data,   \* cesm_time_from_bnds' input
    given,       \* the caller's own record of the inputs, taken before the calls
    last,        \* the latest call: its name, how it ended, its in-place writes
    ncalls       \* the number of calls made

vars == <<pc, xr_data, xr_data_2, lon_min, lon_bounds, lat_bounds,
          shifted, shifted2, matched, inside, outside, area,
          stat, grid_names, arg_names, kind, ntime, weighted,
          p_values, alpha, p_fdr, data, ref_year, calendar, converted,
          cesm_data, given, last, ncalls>>

\* The variables of xr_area_weighted_stat.
stat_vars == <<stat, grid_names, arg_names, kind, ntime, weighted>>

\* The variables of stats_fdr and of dt_convert_to_datetime64.
fdr_vars == <<p_values, alpha, p_fdr>>
dt_vars == <<data, ref_year, calendar, converted>>

\* The variables of the sequences of calls on the same inputs.
frame_vars == <<cesm_data, given, last, ncalls>>

\* The variables of the calls made after xr_mask_bounds' in this module.
rest == <<area, stat_vars, fdr_vars, dt_vars, frame_vars>>

----------------------------------------------------------------------------
(* Bounds of the model and the input sets.                                 *)

MaxLon == 3
MaxLat == 2

LonVals == {-120, 0, 120, 240, 360}
LatVals == {-45, 45}
LonMins == {-720, -180, 0, 120, 360, 720}

None == <<>>
NaN == <<>>

SeqsUpTo(S, n) == UNION {[1..k -> S] : k \in 1..n}

\* The test data: every cell holds a value of its own.
TagData(lon, lat) ==
    [i \in 1..Len(lon) |-> [j \in 1..Len(lat) |-> <<(i - 1) * Len(lat) + j>>]]

MakeGrid(lon, lat) == [lon |-> lon, lat |-> lat, data |-> TagData(lon, lat)]

NoGrid == [lon |-> <<>>, lat |-> <<>>, data |-> <<>>]
Ok(g) == [status |-> "ok", grid |-> g]
Raise(e) == [status |-> e, grid |-> NoGrid]
NotCalled == Raise("not called")

----------------------------------------------------------------------------
(* numpy helpers.                                                          *)

SeqMin(s) == CHOOSE v \in {s[i] : i \in DOMAIN s} : \A i \in DOMAIN s : v <= s[i]
SeqMax(s) == CHOOSE v \in {s[i] : i \in DOMAIN s} : \A i \in DOMAIN s : v >= s[i]

\* np.diff(a)
np_diff(a) == [i \in 1..(Len(a) - 1) |-> a[i + 1] - a[i]]

\* np.where(a == v)[0][0], the first (0-based) index holding v
FirstIndexOf(a, v) ==
    (CHOOSE i \in DOMAIN a : a[i] = v /\ \A k \in 1..(i - 1) : a[k] # v) - 1

\* np.roll(a, shift) / xarray roll along one dimension: the element at
\* index i moves to index (i + shift) mod n.
Roll(a, shift) ==
    LET n == Len(a)
    IN  [i \in 1..n |-> a[((i - 1 - shift) % n) + 1]]

----------------------------------------------------------------------------
(* xr_shift_lon                                                            *)

MonotonicIncrease_nonstrict(lon) == \A i \in DOMAIN np_diff(lon) : np_diff(lon)[i] >= 0

\* np.all(np.diff(lon) > 0)
MonotonicIncrease(lon) == \A i \in DOMAIN np_diff(lon) : np_diff(lon)[i] > 0

MonotonicDecrease_nonstrict(lon) == \A i \in DOMAIN np_diff(lon) : np_diff(lon)[i] <= 0

\* np.all(np.diff(lon) < 0)
MonotonicDecrease(lon) == \A i \in DOMAIN np_diff(lon) : np_diff(lon)[i] < 0

Add360_le(lon, lonmin) == [i \in DOMAIN lon |-> IF lon[i] <= lonmin THEN 360 ELSE 0]

\* add_360 = np.where(lon < lon_min, 360, 0)
Add360(lon, lonmin) == [i \in DOMAIN lon |-> IF lon[i] < lonmin THEN 360 ELSE 0]

Sub360_gt(lon, lonmin) ==
    [i \in DOMAIN lon |-> IF lon[i] > (lonmin + 360) THEN -360 ELSE 0]

\* sub_360 = np.where(lon >= (lon_min+360), -360, 0)
Sub360(lon, lonmin) ==
    [i \in DOMAIN lon |-> IF lon[i] >= (lonmin + 360) THEN -360 ELSE 0]

RollStart_min(newlon, increasing) == FirstIndexOf(newlon, SeqMin(newlon))

\* x: where the minimum (increasing) or the maximum (decreasing) longitude is
RollStart(newlon, increasing) ==
    IF increasing
    THEN FirstIndexOf(newlon, SeqMin(newlon))
    ELSE FirstIndexOf(newlon, SeqMax(newlon))

xr_shift_lon_dataonly(g, lonmin) ==
    LET lon == g.lon
    IN  IF ~(MonotonicIncrease(lon) \/ MonotonicDecrease(lon))
        THEN Raise("ValueError")
        ELSE
        LET increasing == MonotonicIncrease(lon)
            add_360 == Add360(lon, lonmin)
            sub_360 == Sub360(lon, lonmin)
        IN  IF \E i \in DOMAIN lon : add_360[i] + sub_360[i] # 0
            THEN LET newlon == [i \in DOMAIN lon |-> lon[i] + add_360[i] + sub_360[i]]
                     x == RollStart(newlon, increasing)
                 IN  Ok([lon |-> newlon,
                         lat |-> g.lat,
                         data |-> Roll(g.data, -x)])
            ELSE Ok(g)

xr_shift_lon(g, lonmin) ==
    LET lon == g.lon
    IN  IF ~(MonotonicIncrease(lon) \/ MonotonicDecrease(lon))
        THEN Raise("ValueError")
        ELSE
        LET increasing == MonotonicIncrease(lon)
            add_360 == Add360(lon, lonmin)
            sub_360 == Sub360(lon, lonmin)
        IN  IF \E i \in DOMAIN lon : add_360[i] + sub_360[i] # 0
            THEN LET newlon == [i \in DOMAIN lon |-> lon[i] + add_360[i] + sub_360[i]]
                     x == RollStart(newlon, increasing)
                 IN  Ok([lon |-> Roll(newlon, -x),
                         lat |-> g.lat,
                         data |-> Roll(g.data, -x)])
            ELSE Ok(g)

----------------------------------------------------------------------------
(* xr_check_lon_lat_match                                                  *)

Result(v) == [status |-> "ok", value |-> v]
Failed(e) == [status |-> e, value |-> FALSE]

\* (a != b).any() on two 1-D numpy arrays.  Equal lengths compare element
\* by element; a length-1 array is broadcast against the other; any other
\* pair of lengths raises (ValueError from the comparison in recent numpy,
\* AttributeError on the scalar it returns in older ones).
np_ne_any(a, b) ==
    IF Len(a) = Len(b) THEN Result(\E i \in DOMAIN a : a[i] # b[i])
    ELSE IF Len(a) = 1 THEN Result(\E i \in DOMAIN b : a[1] # b[i])
    ELSE IF Len(b) = 1 THEN Result(\E i \in DOMAIN a : a[i] # b[1])
    ELSE Failed("Exception")

xr_check_lon_lat_match_latonly(g1, g2) ==
    LET lat_ne == np_ne_any(g1.lat, g2.lat)
    IN  IF lat_ne.status # "ok" THEN lat_ne ELSE Result(~lat_ne.value)

xr_check_lon_lat_match(g1, g2) ==
    LET lon_ne == np_ne_any(g1.lon, g2.lon)
        lat_ne == np_ne_any(g1.lat, g2.lat)
    IN  IF lon_ne.status # "ok" THEN lon_ne
        ELSE IF lat_ne.status # "ok" THEN lat_ne
        ELSE Result(~lon_ne.value /\ ~lat_ne.value)

----------------------------------------------------------------------------
(* xr_mask_bounds                                                          *)

\* tolerance=1e-3, as its inverse
ReindexTolInv == 1000

Abs(v) == IF v < 0 THEN -v ELSE v

\* The index of src nearest to each value of tgt within the tolerance, 0
\* where there is none.  An axis equal to its target is left as it is.
AxisIndexer(src, tgt) ==
    IF src = tgt THEN [i \in DOMAIN tgt |-> i]
    ELSE [i \in DOMAIN tgt |->
            LET near == {k \in DOMAIN src : ReindexTolInv * Abs(src[k] - tgt[i]) <= 1}
            IN  IF near = {} THEN 0
                ELSE CHOOSE k \in near :
                        \A m \in near : Abs(src[k] - tgt[i]) <= Abs(src[m] - tgt[i])]

\* A nearest-neighbour lookup needs a monotonic index without duplicates.
AxisReindexable(src, tgt) ==
    src = tgt \/ MonotonicIncrease(src) \/ MonotonicDecrease(src)

\* data.reindex_like(other, method='nearest', tolerance=1e-3): the result
\* has other's coordinates; a cell without a source within the tolerance
\* is missing.
ReindexLike(d, other) ==
    IF ~(AxisReindexable(d.lon, other.lon) /\ AxisReindexable(d.lat, other.lat))
    THEN Raise("ValueError")
    ELSE LET ix == AxisIndexer(d.lon, other.lon)
             jx == AxisIndexer(d.lat, other.lat)
         IN  Ok([lon |-> other.lon,
                 lat |-> other.lat,
                 data |-> [i \in DOMAIN other.lon |-> [j \in DOMAIN other.lat |->
                             IF ix[i] = 0 \/ jx[j] = 0 THEN NaN
                             ELSE d.data[ix[i]][jx[j]]]]])

\* data.where(cond): cells where cond is false become missing; cond[i][j]
\* is the condition broadcast over the longitude and latitude dimensions
Where(d, cond) ==
    [d EXCEPT !.data = [i \in DOMAIN d.lon |-> [j \in DOMAIN d.lat |->
                           IF cond[i][j] THEN d.data[i][j] ELSE NaN]]]

\* (lon >= lon_bounds[0]) & (lon <= lon_bounds[1])
InsideLonCond(v, lb) == v >= lb[1] /\ v <= lb[2]

\* (lat >= lat_bounds[0]) & (lat <= lat_bounds[1])
InsideLatCond(v, ltb) == v >= ltb[1] /\ v <= ltb[2]

OutsideCond_ge(lonv, latv, lb, ltb) ==
    lonv < lb[1] \/ lonv >= lb[2] \/ latv < ltb[1] \/ latv > ltb[2]

\* (lon < lon_bounds[0]) | (lon > lon_bounds[1]) |
\* (lat < lat_bounds[0]) | (lat > lat_bounds[1])
OutsideCond(lonv, latv, lb, ltb) ==
    lonv < lb[1] \/ lonv > lb[2] \/ latv < ltb[1] \/ latv > ltb[2]

\* xr_mask_bounds up to the shift back to the original longitudes
MaskShiftBack(g, lonbounds, latbounds, select_how) ==
    LET lb == IF lonbounds = None THEN <<-180, 180>> ELSE lonbounds
        ltb == IF latbounds = None THEN <<-90, 90>> ELSE latbounds
        orig_lon_min == SeqMin(g.lon)
        s1 == xr_shift_lon(g, lb[1])
    IN  IF s1.status # "ok" THEN s1
        ELSE IF select_how = "inside"
        THEN LET d1 == s1.grid
                 lon_ok == [i \in DOMAIN d1.lon |-> [j \in DOMAIN d1.lat |->
                               InsideLonCond(d1.lon[i], lb)]]
                 d2 == Where(d1, lon_ok)
                 lat_ok == [i \in DOMAIN d2.lon |-> [j \in DOMAIN d2.lat |->
                               InsideLatCond(d2.lat[j], ltb)]]
             IN  xr_shift_lon(Where(d2, lat_ok), orig_lon_min)
        ELSE IF select_how = "outside"
        THEN LET d1 == s1.grid
                 out == [i \in DOMAIN d1.lon |-> [j \in DOMAIN d1.lat |->
                            OutsideCond(d1.lon[i], d1.lat[j], lb, ltb)]]
             IN  xr_shift_lon(Where(d1, out), orig_lon_min)
        ELSE Raise("ValueError")

xr_mask_bounds(g, lonbounds, latbounds, select_how) ==
    LET back == MaskShiftBack(g, lonbounds, latbounds, select_how)
    IN  IF back.status # "ok" THEN back
        ELSE
        LET m1 == xr_check_lon_lat_match(g, back.grid)
        IN  IF m1.status # "ok" THEN Raise(m1.status)
            ELSE IF m1.value THEN back
            ELSE
            LET r == ReindexLike(back.grid, g)
            IN  IF r.status # "ok" THEN r
                ELSE
                LET m2 == xr_check_lon_lat_match(g, r.grid)
                IN  IF m2.status # "ok" THEN Raise(m2.status)
                    ELSE IF m2.value THEN r
                    ELSE Raise("RuntimeError")

----------------------------------------------------------------------------
(* xr_area.  Angles computed from the coordinates are kept as doubled      *)
(* whole degrees (suffix 2), so that the cell boundaries, which lie        *)
(* half-way between whole degrees, are integers.  sin is tabulated in      *)
(* ten-thousandths at every 7.5 degrees from 0 to 90; the latitudes of     *)
(* the model are multiples of 15 degrees, so that every clamped boundary   *)
(* is in the table.  An area is counted in the unit radius^2 * pi / 360    *)
(* / 10000, in which the sphere's surface is 4 * 360 * 10000.              *)

SinTable == <<1305, 2588, 3827, 5000, 6088, 7071, 7934, 8660, 9239, 9659, 9914, 10000>>

\* np.sin(a/180*np.pi) of the doubled angle a2, a multiple of 15
Sin2(a2) ==
    LET r == a2 % 720
        T(q) == IF q = 0 THEN 0 ELSE SinTable[q \div 15]
    IN  IF r <= 180 THEN T(r)
        ELSE IF r <= 360 THEN T(360 - r)
        ELSE IF r <= 540 THEN 0 - T(r - 360)
        ELSE 0 - T(720 - r)

\* a[::-1]
Reverse(a) == [i \in 1..Len(a) |-> a[Len(a) + 1 - i]]

Extended_inward(c) ==
    <<c[1] + (c[2] - c[1])>> \o c \o <<c[Len(c)] - (c[Len(c)] - c[Len(c) - 1])>>

\* lon_extended / lat_extended: the centres with one extrapolated element
\* at each end
Extended(c) ==
    <<c[1] - (c[2] - c[1])>> \o c \o <<c[Len(c)] + (c[Len(c)] - c[Len(c) - 1])>>

Bounds2_noextrapolation(c) ==
    [k \in 1..(Len(c) + 1) |->
        IF k = 1 THEN 2 * c[1]
        ELSE IF k = Len(c) + 1 THEN 2 * c[Len(c)]
        ELSE c[k - 1] + c[k]]

\* np.interp(np.arange(n+1)+0.5, np.arange(n+2), extended): the mid-points
\* of neighbouring elements of the extended axis, doubled
Bounds2(c) == [k \in 1..(Len(c) + 1) |-> Extended(c)[k] + Extended(c)[k + 1]]

ClampLat2_none(b) == b

ClampLat2_lower(b) ==
    IF SeqMin(b) < -180
    THEN [k \in DOMAIN b |-> IF b[k] < -180 THEN -180 ELSE b[k]]
    ELSE b

\* lat_bounds after the two clamps to -90 and 90
ClampLat2(b) ==
    LET lo == IF SeqMin(b) < -180
              THEN [k \in DOMAIN b |-> IF b[k] < -180 THEN -180 ELSE b[k]]
              ELSE b
    IN  IF SeqMax(lo) > 180
        THEN [k \in DOMAIN lo |-> IF lo[k] > 180 THEN 180 ELSE lo[k]]
        ELSE lo

Width_noreverse(b, increasing) == np_diff(b)

\* np.diff(b) if increasing, np.diff(b[::-1])[::-1] otherwise
Width(b, increasing) ==
    IF increasing THEN np_diff(b) ELSE Reverse(np_diff(Reverse(b)))

SinOf(b) == [k \in DOMAIN b |-> Sin2(b[k])]

RECURSIVE SeqSum(_)
SeqSum(s) == IF s = <<>> THEN 0 ELSE s[1] + SeqSum(Tail(s))

\* correct_answer = radius**2 * 4 * np.pi
SphereArea == 4 * 360 * 10000

\* abs(perc_diff) > 1e-4, perc_diff = 100 * (total - correct) / correct
SphereWarning(total) == Abs(total - SphereArea) > SphereArea \div 1000000

\* An outcome of xr_area: the area array and the warnings emitted, with the
\* (doubled) cell boundaries the call derived on the way.
AreaOk(g, w, lonb, latb) ==
    [status |-> "ok", grid |-> g, warnings |-> w, lon_b2 |-> lonb, lat_b2 |-> latb]
AreaRaise(e) ==
    [status |-> e, grid |-> NoGrid, warnings |-> {}, lon_b2 |-> <<>>, lat_b2 |-> <<>>]

xr_area(g) ==
    LET lon == g.lon
        lat == g.lat
    IN  IF ~(MonotonicIncrease(lon) \/ MonotonicDecrease(lon))
        THEN AreaRaise("ValueError")
        ELSE IF ~(MonotonicIncrease(lat) \/ MonotonicDecrease(lat))
        THEN AreaRaise("ValueError")
        ELSE IF Len(lon) < 2 THEN AreaRaise("IndexError")
        ELSE IF ~(MonotonicIncrease(Extended(lon)) \/ MonotonicDecrease(Extended(lon)))
        THEN AreaRaise("RuntimeError")
        ELSE IF Len(lat) < 2 THEN AreaRaise("IndexError")
        ELSE
        LET lonb == Bounds2(lon)
            latb == ClampLat2(Bounds2(lat))
            x_width == Width(lonb, MonotonicIncrease(lon))
            y_width == Width(SinOf(latb), MonotonicIncrease(lat))
        IN  IF SeqMin(x_width) < 0 THEN AreaRaise("RuntimeError")
            ELSE IF SeqMin(y_width) < 0 THEN AreaRaise("RuntimeError")
            ELSE
            LET a == [lon |-> lon, lat |-> lat,
                      data |-> [i \in DOMAIN lon |-> [j \in DOMAIN lat |->
                                   <<y_width[j] * x_width[i]>>]]]
                m == xr_check_lon_lat_match(g, a)
                total == SeqSum([i \in DOMAIN lon |->
                                    SeqSum([j \in DOMAIN lat |-> a.data[i][j][1]])])
            IN  IF m.status # "ok" THEN AreaRaise(m.status)
                ELSE IF ~m.value THEN AreaRaise("RuntimeError")
                ELSE AreaOk(a, (IF SeqMax(x_width) > 2 * SeqMin(x_width)
                                THEN {"width"} ELSE {})
                               \cup (IF SphereWarning(total) THEN {"sphere"} ELSE {}),
                            lonb, latb)

NotArea == AreaRaise("not called")

----------------------------------------------------------------------------
(* xr_area_weighted_stat.  xr_data is the grid of the first slice (first   *)
(* variable, first time) of the input object; kind and ntime say whether   *)
(* there are more.  A returned number is a fraction in lowest terms, a     *)
(* sum being counted in the unit of the areas.                             *)

LonLat == [lon |-> "lon", lat |-> "lat"]
Renamed == [lon |-> "longitude", lat |-> "latitude"]

\* The greatest common divisor, by Euclid's algorithm; the remainder is
\* bound to its value before the next step.
RECURSIVE GCD(_, _)
GCD(a, b) ==
    IF b = 0 THEN a
    ELSE CHOOSE g \in {GCD(b, r) : r \in {a % b}} : TRUE

\* n / d as a fraction in lowest terms
Frac(n, d) ==
    CHOOSE f \in {IF y = 0 THEN [num |-> 0, den |-> 0]
                  ELSE [num |-> x \div GCD(Abs(x), y), den |-> y \div GCD(Abs(x), y)] :
                  x \in {n}, y \in {d}} : TRUE

Sentinel == [num |-> -1, den |-> 1]
NoValue == [num |-> 0, den |-> 0]

StatOk(v, w) == [status |-> "ok", value |-> v, warnings |-> w]
StatRaise(e) == [status |-> e, value |-> NoValue, warnings |-> {}]
NotStat == StatRaise("not called")

\* (data * area).sum(dim=[lon_name, lat_name]): missing cells are skipped
WeightedSum(d, a) ==
    SeqSum([i \in DOMAIN d.lon |-> SeqSum([j \in DOMAIN d.lat |->
               IF d.data[i][j] = NaN THEN 0
               ELSE d.data[i][j][1] * a.data[i][j][1]])])

\* area.sum(dim=[lon_name, lat_name])
AreaSum(a) ==
    SeqSum([i \in DOMAIN a.lon |-> SeqSum([j \in DOMAIN a.lat |-> a.data[i][j][1]])])

Statistic_raise(st, d, a, k, nt, w) ==
    IF st \notin {"sum", "mean"} THEN StatRaise("ValueError")
    ELSE IF k = "Dataset" \/ nt > 1 THEN StatRaise("TypeError")
    ELSE IF st = "sum" THEN StatOk(Frac(WeightedSum(d, a), 1), w)
    ELSE StatOk(Frac(WeightedSum(d, a), AreaSum(a)), w)

\* The branch on stat and the conversion float(data.values), which fails
\* unless the reduced DataArray holds exactly one value (data.values of a
\* Dataset is not an array at all).
Statistic(st, d, a, k, nt, w) ==
    IF st \notin {"sum", "mean"} THEN StatOk(Sentinel, w \cup {"stat"})
    ELSE IF k = "Dataset" \/ nt > 1 THEN StatRaise("TypeError")
    ELSE IF st = "sum" THEN StatOk(Frac(WeightedSum(d, a), 1), w)
    ELSE StatOk(Frac(WeightedSum(d, a), AreaSum(a)), w)

\* Lines 233 to 245, masked being the outcome of the masking (or of the
\* copy) and a the outcome of xr_area.
StatOfArea(g, st, masked, a, gnames, k, nt) ==
    IF masked.status # "ok" THEN StatRaise(masked.status)
    ELSE IF a.status # "ok" THEN StatRaise(a.status)
    \* xr_check_lon_lat_match(xr_data, area) looks up 'lon' and 'lat'
    ELSE IF gnames # LonLat THEN StatRaise("KeyError")
    ELSE
    LET m == xr_check_lon_lat_match(g, a.grid)
    IN  IF m.status # "ok" THEN StatRaise(m.status)
        ELSE Statistic(st, masked.grid, a.grid, k, nt,
                       a.warnings \cup (IF m.value THEN {} ELSE {"match"}))

xr_area_weighted_stat(g, st, lonb, latb, gnames, anames, k, nt) ==
    IF anames # gnames THEN StatRaise("KeyError")
    ELSE StatOfArea(g, st,
                    IF lonb # None \/ latb # None
                    THEN xr_mask_bounds(g, lonb, latb, "inside")
                    ELSE Ok(g),
                    xr_area(g), gnames, k, nt)

----------------------------------------------------------------------------
(* stats_fdr (src/climapy/climapy_stats.py).  A p-value is a whole number  *)
(* of thousandths and alpha a whole number of hundredths, so that          *)
(* p <= (i/n) * alpha is p * n <= 10 * i * alpha; the array is a sequence  *)
(* of rows.  The returned threshold is a fraction in lowest terms.         *)

FdrOk(v) == [status |-> "ok", value |-> v]
FdrRaise(e) == [status |-> e, value |-> NoValue]
NotFdr == FdrRaise("not called")

\* p_values.flatten(): the rows one after another
RECURSIVE Flatten(_)
Flatten(rows) == IF rows = <<>> THEN <<>> ELSE Head(rows) \o Flatten(Tail(rows))

\* np.sort(a): a new array, ascending
RECURSIVE np_sort(_)
np_sort(a) ==
    IF a = <<>> THEN <<>>
    ELSE LET k == FirstIndexOf(a, SeqMin(a)) + 1
         IN  <<a[k]>> \o np_sort(SubSeq(a, 1, k - 1) \o SubSeq(a, k + 1, Len(a)))

\* the loop over the ranks i = 1..n, left at the first rank that fails
RECURSIVE FdrLoop(_, _, _, _)
FdrLoop(p_sorted, al, i, acc) ==
    IF i > Len(p_sorted) THEN acc
    ELSE IF p_sorted[i] * Len(p_sorted) <= 10 * i * al
    THEN FdrLoop(p_sorted, al, i + 1, Frac(i * al, Len(p_sorted) * 100))
    ELSE acc

stats_fdr(p, al) ==
    IF al <= 0 \/ al >= 100 THEN FdrRaise("ValueError")
    ELSE FdrOk(FdrLoop(np_sort(Flatten(p)), al, 1, Frac(0, 1)))

FdrIdle ==
    /\ p_values = <<>>
    /\ alpha = 10
    /\ p_fdr = NotFdr

----------------------------------------------------------------------------
(* dt_convert_to_datetime64 (src/climapy/climapy_dt.py), for units 'days   *)
(* since Y-1-1 00:00:00' and whole days.  A date is a record [year,        *)
(* month, day] of numpy's (proleptic Gregorian) calendar.                  *)

Leap(y) == y % 4 = 0 /\ (y % 100 # 0 \/ y % 400 = 0)
DaysInYear(y) == IF Leap(y) THEN 366 ELSE 365
MonthLengths(leap) ==
    <<31, IF leap THEN 29 ELSE 28, 31, 30, 31, 30, 31, 31, 30, 31, 30, 31>>

\* the date n days after the first day of month m, within one year
RECURSIVE MonthDay(_, _, _, _)
MonthDay(y, lengths, m, n) ==
    IF n >= lengths[m] THEN MonthDay(y, lengths, m + 1, n - lengths[m])
    ELSE [year |-> y, month |-> m, day |-> n + 1]

\* ref + n * delta for ref = y-01-01: numpy's datetime64 arithmetic
RECURSIVE DateFrom(_, _)
DateFrom(y, n) ==
    IF n >= DaysInYear(y) THEN DateFrom(y + 1, n - DaysInYear(y))
    ELSE MonthDay(y, MonthLengths(Leap(y)), 1, n)

\* str(ref + (i * delta))[5:10] == '02-29'
IsFeb29(d) == d.month = 2 /\ d.day = 29

\* range(1+int(data2.max()*1.01))
SearchRange(data2) == 0..((SeqMax(data2) * 101) \div 100)

\* data2[np.where(data2 > i)] += 1
Skip(data2, i) == [k \in DOMAIN data2 |-> IF data2[k] > i THEN data2[k] + 1 ELSE data2[k]]

\* The loop over i, which acts at the offsets that are a 29 February, in
\* increasing order.
RECURSIVE SkipAll(_, _)
SkipAll(data2, todo) ==
    IF todo = {} THEN data2
    ELSE LET i == CHOOSE v \in todo : \A w \in todo : v <= w
         IN  SkipAll(Skip(data2, i), todo \ {i})

DtOk(d) == [status |-> "ok", dates |-> d]
DtRaise(e) == [status |-> e, dates |-> <<>>]
NotDt == DtRaise("not called")

dt_convert_to_datetime64(d, y, cal) ==
    LET cal2 == IF cal = "no_leap" THEN "365_day" ELSE cal
    IN  IF cal2 \notin {"365_day", "gregorian"} THEN DtRaise("ValueError")
        ELSE IF SeqMin(d) < 0 THEN DtRaise("ValueError")
        ELSE
        LET data2 == IF cal2 = "365_day"
                     THEN SkipAll(d, {i \in SearchRange(d) : IsFeb29(DateFrom(y, i))})
                     ELSE d
        IN  DtOk([k \in DOMAIN d |-> DateFrom(y, data2[k])])

DtIdle ==
    /\ data = <<0>>
    /\ ref_year = 1
    /\ calendar = "365_day"
    /\ converted = NotDt

----------------------------------------------------------------------------
(* cesm_time_from_bnds (src/climapy/climapy_cesm.py).  Its input is a      *)
(* record [time, time_bnds, ref_year, calendar].                           *)

NoCesm == [time |-> <<>>, time_bnds |-> <<>>, ref_year |-> 0, calendar |-> ""]
CesmOk(d) == [status |-> "ok", dataset |-> d]
CesmRaise(e) == [status |-> e, dataset |-> NoCesm]

\* def dt_convert_to_datetime64(data, units=..., calendar=...)
DtParameters == {"data", "units", "calendar"}

\* The keywords of the two calls of climapy.dt_convert_to_datetime64
CesmKeywords == {"units", "calendar", "min_year"}

\* data['time_bnds'].mean(dim='bnds'), in whole days
TimeBndsMid(d) ==
    [k \in DOMAIN d.time_bnds |-> (d.time_bnds[k][1] + d.time_bnds[k][2]) \div 2]

\* Both conversions are called with min_year=min_year, a keyword that
\* dt_convert_to_datetime64(data, units, calendar) does not have: the first
\* call raises TypeError, before anything is assigned.
cesm_time_from_bnds(d, min_year) ==
    IF ~(CesmKeywords \subseteq DtParameters) THEN CesmRaise("TypeError")
    ELSE LET t == dt_convert_to_datetime64(TimeBndsMid(d), d.ref_year, d.calendar)
         IN  IF t.status # "ok" THEN CesmRaise(t.status)
             ELSE CesmOk([d EXCEPT !.time = t.dates])

----------------------------------------------------------------------------
(* The statements that change an object in place.  The objects of a call   *)
(* are told apart by their location: Input is the object the caller        *)
(* passed in, and every copy or new array has a location of its own.  A    *)
(* function's writes are the in-place statements it executes, in order,    *)
(* each with the location it changes and the value it leaves there.        *)

Input == <<"input">>

Write(loc, v) == [loc |-> loc, value |-> v]

\* What the object at Input holds after the writes ws.
RECURSIVE After(_, _)
After(obj, ws) ==
    IF ws = <<>> THEN obj
    ELSE After(IF Head(ws).loc = Input THEN Head(ws).value ELSE obj, Tail(ws))

xr_copy_alias(loc) == loc

\* xr_data.copy(): a new object; assigning one of its variables does not
\* reach the object it was copied from
xr_copy(loc) == <<"copy">> \o loc

\* xr_shift_lon: data[lon_name] = lon + add_360 + sub_360 on data =
\* xr_data.copy(); roll returns a new object.
shift_writes(loc, g, lonmin) ==
    LET lon == g.lon
        add_360 == Add360(lon, lonmin)
        sub_360 == Sub360(lon, lonmin)
    IN  IF ~(MonotonicIncrease(lon) \/ MonotonicDecrease(lon)) THEN <<>>
        ELSE IF \E i \in DOMAIN lon : add_360[i] + sub_360[i] # 0
        THEN <<Write(xr_copy(loc),
                     [g EXCEPT !.lon = [i \in DOMAIN lon |->
                                           lon[i] + add_360[i] + sub_360[i]]])>>
        ELSE <<>>

\* xr_area, ending with the given status: lat_bounds[...] = -90. and
\* lat_bounds[...] = 90. on the array np.interp returned; the coordinate
\* values of the input are only read.
area_writes(g, status) ==
    IF status \in {"ValueError", "IndexError"} THEN <<>>
    ELSE IF ClampLat2(Bounds2(g.lat)) # Bounds2(g.lat)
    THEN <<Write(<<"lat_bounds">>, ClampLat2(Bounds2(g.lat)))>>
    ELSE <<>>

\* xr_mask_bounds: the first xr_shift_lon is called on data =
\* xr_data.copy(); where returns a new object, on which the second
\* xr_shift_lon is called, and so does reindex_like.
mask_writes(loc, g, lonbounds, latbounds) ==
    shift_writes(xr_copy(loc), g,
                 (IF lonbounds = None THEN <<-180, 180>> ELSE lonbounds)[1])

\* xr_area_weighted_stat: the calls of xr_mask_bounds and of xr_area on
\* xr_data, masked and status being the status with which each ends;
\* data * area and the sums are new objects.
stat_writes(loc, g, lonbounds, latbounds, masked, status) ==
    IF lonbounds # None \/ latbounds # None
    THEN mask_writes(loc, g, lonbounds, latbounds)
         \o (IF masked = "ok" THEN area_writes(g, status) ELSE <<>>)
    ELSE area_writes(g, status)

\* cesm_time_from_bnds: data['time'].values = ... and
\* data['time_bnds'].values = ... on data = xr_data.copy(), once the
\* conversions have returned.
cesm_writes(loc, d, min_year) ==
    IF cesm_time_from_bnds(d, min_year).status = "ok"
    THEN <<Write(xr_copy(loc), cesm_time_from_bnds(d, min_year).dataset)>>
    ELSE <<>>

NoCall == [call |-> "none", status |-> "not called", writes |-> 0]
Call(name, status, ws) == [call |-> name, status |-> status, writes |-> Len(ws)]

FrameIdle ==
    /\ cesm_data = NoCesm
    /\ given = <<>>
    /\ last = NoCall
    /\ ncalls = 0

AreaIdle == area = NotArea

StatIdle ==
    /\ stat = "mean"
    /\ grid_names = LonLat
    /\ arg_names = LonLat
    /\ kind = "DataArray"
    /\ ntime = 0
    /\ weighted = NotStat

\* Before any call of the later functions.
RestInit == AreaIdle /\ StatIdle /\ FdrIdle /\ DtIdle /\ FrameIdle

----------------------------------------------------------------------------
(* Calls of xr_shift_lon: once, then again with the same lon_min or back   *)
(* to the original minimum longitude.                                      *)

InitShift ==
    /\ pc = "start"
    /\ \E lon \in SeqsUpTo(LonVals, MaxLon) : xr_data = MakeGrid(lon, <<-45, 45>>)
    /\ xr_data_2 = NoGrid
    /\ lon_min \in LonMins
    /\ lon_bounds = None
    /\ lat_bounds = None
    /\ shifted = NotCalled
    /\ shifted2 = NotCalled
    /\ matched = Failed("not called")
    /\ inside = NotCalled
    /\ outside = NotCalled
    /\ RestInit

ShiftLon ==
    /\ pc = "start"
    /\ shifted' = xr_shift_lon(xr_data, lon_min)
    /\ pc' = "shift"
    /\ UNCHANGED <<xr_data, xr_data_2, lon_min, lon_bounds, lat_bounds,
                   shifted2, matched, inside, outside>>
    /\ UNCHANGED rest

ShiftAgain ==
    /\ pc = "shift"
    /\ shifted.status = "ok"
    /\ shifted2' = xr_shift_lon(shifted.grid, lon_min)
    /\ pc' = "again"
    /\ UNCHANGED <<xr_data, xr_data_2, lon_min, lon_bounds, lat_bounds,
                   shifted, matched, inside, outside>>
    /\ UNCHANGED rest

ShiftBack ==
    /\ pc = "shift"
    /\ shifted.status = "ok"
    /\ shifted2' = xr_shift_lon(shifted.grid, SeqMin(xr_data.lon))
    /\ pc' = "back"
    /\ UNCHANGED <<xr_data, xr_data_2, lon_min, lon_bounds, lat_bounds,
                   shifted, matched, inside, outside>>
    /\ UNCHANGED rest

NextShift == ShiftLon \/ ShiftAgain \/ ShiftBack

SpecShift == InitShift /\ [][NextShift]_vars

----------------------------------------------------------------------------
(* A call of xr_check_lon_lat_match on two grids of any sizes and data.    *)

MatchLonVals == {0, 120, 240}
DataOffsets == {0, 100}

\* g with every data value raised by k
OffsetData(g, k) ==
    [g EXCEPT !.data = [i \in DOMAIN g.lon |-> [j \in DOMAIN g.lat |->
                           <<g.data[i][j][1] + k>>]]]

InitMatch ==
    /\ pc = "start"
    /\ \E lon \in SeqsUpTo(MatchLonVals, MaxLon), lat \in SeqsUpTo(LatVals, MaxLat) :
          xr_data = MakeGrid(lon, lat)
    /\ \E lon \in SeqsUpTo(MatchLonVals, MaxLon), lat \in SeqsUpTo(LatVals, MaxLat),
          k \in DataOffsets :
          xr_data_2 = OffsetData(MakeGrid(lon, lat), k)
    /\ lon_min = 0
    /\ lon_bounds = None
    /\ lat_bounds = None
    /\ shifted = NotCalled
    /\ shifted2 = NotCalled
    /\ matched = Failed("not called")
    /\ inside = NotCalled
    /\ outside = NotCalled
    /\ RestInit

CheckLonLatMatch ==
    /\ pc = "start"
    /\ matched' = xr_check_lon_lat_match(xr_data, xr_data_2)
    /\ pc' = "match"
    /\ UNCHANGED <<xr_data, xr_data_2, lon_min, lon_bounds, lat_bounds,
                   shifted, shifted2, inside, outside>>
    /\ UNCHANGED rest

NextMatch == CheckLonLatMatch

SpecMatch == InitMatch /\ [][NextMatch]_vars

----------------------------------------------------------------------------
(* Calls of xr_mask_bounds on one grid with the same bounds: 'inside',     *)
(* then 'outside'.                                                         *)

MaskLonVals == {0, 120, 360, 480, 600}
LonBoundsSet == {None, <<0, 120>>, <<180, 420>>, <<-480, -360>>}
LatBoundsSet == {None, <<-45, 0>>}

InitMask ==
    /\ pc = "start"
    /\ \E lon \in SeqsUpTo(MaskLonVals, MaxLon), lat \in SeqsUpTo(LatVals, MaxLat) :
          xr_data = MakeGrid(lon, lat)
    /\ xr_data_2 = NoGrid
    /\ lon_min = 0
    /\ lon_bounds \in LonBoundsSet
    /\ lat_bounds \in LatBoundsSet
    /\ shifted = NotCalled
    /\ shifted2 = NotCalled
    /\ matched = Failed("not called")
    /\ inside = NotCalled
    /\ outside = NotCalled
    /\ RestInit

MaskInside ==
    /\ pc = "start"
    /\ inside' = xr_mask_bounds(xr_data, lon_bounds, lat_bounds, "inside")
    /\ pc' = "inside"
    /\ UNCHANGED <<xr_data, xr_data_2, lon_min, lon_bounds, lat_bounds,
                   shifted, shifted2, matched, outside>>
    /\ UNCHANGED rest

MaskOutside ==
    /\ pc = "inside"
    /\ outside' = xr_mask_bounds(xr_data, lon_bounds, lat_bounds, "outside")
    /\ pc' = "both"
    /\ UNCHANGED <<xr_data, xr_data_2, lon_min, lon_bounds, lat_bounds,
                   shifted, shifted2, matched, inside>>
    /\ UNCHANGED rest

NextMask == MaskInside \/ MaskOutside

SpecMask == InitMask /\ [][NextMask]_vars

----------------------------------------------------------------------------
(* A call of xr_area on a grid of arbitrary short axes or on a regular     *)
(* global grid.                                                            *)

MaxRegular == 4

AreaLonVals == {-90, 0, 90, 180}
AreaLatVals == {-90, -30, 0, 60, 90}

\* n values from start in steps of step
Regular(n, start, step) == [i \in 1..n |-> start + (i - 1) * step]

\* n longitudes spaced by 360/n, in either direction
RegularLons ==
    {Regular(n, start, 360 \div n) : n \in {k \in 2..MaxRegular : 360 % k = 0},
                                     start \in {-180, 0}}
    \cup {Reverse(Regular(n, start, 360 \div n)) :
              n \in {k \in 2..MaxRegular : 360 % k = 0}, start \in {-180, 0}}

\* m latitudes from -90 to 90 inclusive (whole multiples of 15 degrees
\* apart), in either direction
RegularLats ==
    {Regular(m, -90, 180 \div (m - 1)) :
         m \in {k \in 2..MaxRegular : 180 % (15 * (k - 1)) = 0}}
    \cup {Reverse(Regular(m, -90, 180 \div (m - 1))) :
              m \in {k \in 2..MaxRegular : 180 % (15 * (k - 1)) = 0}}

\* Before any call of the functions of the first part.
GridCallsInit ==
    /\ xr_data_2 = NoGrid
    /\ lon_min = 0
    /\ shifted = NotCalled
    /\ shifted2 = NotCalled
    /\ matched = Failed("not called")
    /\ inside = NotCalled
    /\ outside = NotCalled

InitArea ==
    /\ pc = "start"
    /\ \E lon \in SeqsUpTo(AreaLonVals, MaxLon) \cup RegularLons,
          lat \in SeqsUpTo(AreaLatVals, MaxLat) \cup RegularLats :
          xr_data = MakeGrid(lon, lat)
    /\ lon_bounds = None
    /\ lat_bounds = None
    /\ GridCallsInit
    /\ RestInit

Area ==
    /\ pc = "start"
    /\ area' = xr_area(xr_data)
    /\ pc' = "area"
    /\ UNCHANGED <<xr_data, xr_data_2, lon_min, lon_bounds, lat_bounds,
                   shifted, shifted2, matched, inside, outside>>
    /\ UNCHANGED <<stat_vars, fdr_vars, dt_vars, frame_vars>>

NextArea == Area

SpecArea == InitArea /\ [][NextArea]_vars

----------------------------------------------------------------------------
(* A call of xr_area_weighted_stat, on a field of distinct values or on a  *)
(* constant field.                                                         *)

MaxTime == 2
FieldConst == 3

StatLonVals == {0, 120, 240}
StatLonBounds == {None, <<0, 120>>}
StatLatBounds == {None, <<-45, 0>>}
Stats == {"mean", "sum", "median"}

\* the grid of a field that is c everywhere
ConstGrid(lon, lat, c) ==
    [lon |-> lon, lat |-> lat,
     data |-> [i \in 1..Len(lon) |-> [j \in 1..Len(lat) |-> <<c>>]]]

InitStat ==
    /\ pc = "start"
    /\ \E lon \in SeqsUpTo(StatLonVals, MaxLon), lat \in SeqsUpTo(LatVals, MaxLat) :
          xr_data \in {MakeGrid(lon, lat), ConstGrid(lon, lat, FieldConst)}
    /\ lon_bounds \in StatLonBounds
    /\ lat_bounds \in StatLatBounds
    /\ GridCallsInit
    /\ AreaIdle /\ FdrIdle /\ DtIdle /\ FrameIdle
    /\ stat \in Stats
    /\ grid_names \in {LonLat, Renamed}
    /\ arg_names \in {LonLat, Renamed}
    /\ kind \in {"DataArray", "Dataset"}
    /\ ntime \in 0..MaxTime
    /\ weighted = NotStat

AreaWeightedStat ==
    /\ pc = "start"
    /\ weighted' = xr_area_weighted_stat(xr_data, stat, lon_bounds, lat_bounds,
                                         grid_names, arg_names, kind, ntime)
    /\ pc' = "stat"
    /\ UNCHANGED <<xr_data, xr_data_2, lon_min, lon_bounds, lat_bounds,
                   shifted, shifted2, matched, inside, outside, area,
                   stat, grid_names, arg_names, kind, ntime>>
    /\ UNCHANGED <<fdr_vars, dt_vars, frame_vars>>

NextStat == AreaWeightedStat

SpecStat == InitStat /\ [][NextStat]_vars

----------------------------------------------------------------------------
(* A call of stats_fdr on a 1-D array or on a 2 x 2 array.                 *)

MaxP == 3

PVals == {10, 40, 60, 80, 500}
Alphas == {0, 5, 10, 100}

\* Before any call of the grid functions.
GridIdle ==
    /\ xr_data = NoGrid
    /\ lon_bounds = None
    /\ lat_bounds = None
    /\ GridCallsInit
    /\ AreaIdle /\ StatIdle

InitFdr ==
    /\ pc = "start"
    /\ GridIdle /\ DtIdle /\ FrameIdle
    /\ p_values \in {<<row>> : row \in SeqsUpTo(PVals, MaxP)}
                    \cup [1..2 -> [1..2 -> PVals]]
    /\ alpha \in Alphas
    /\ p_fdr = NotFdr

StatsFdr ==
    /\ pc = "start"
    /\ p_fdr' = stats_fdr(p_values, alpha)
    /\ pc' = "fdr"
    /\ UNCHANGED <<xr_data, xr_data_2, lon_min, lon_bounds, lat_bounds,
                   shifted, shifted2, matched, inside, outside, area,
                   stat_vars, p_values, alpha, dt_vars, frame_vars>>

NextFdr == StatsFdr

SpecFdr == InitFdr /\ [][NextFdr]_vars

----------------------------------------------------------------------------
(* A call of dt_convert_to_datetime64 on one number of days or on an array *)
(* of two.                                                                 *)

MaxDay == 1200

DayVals == {-1, 0, 58, 59, 60, 365, 424, 730}
RefYears == {1, 1900, 1999, 2000}
Calendars == {"365_day", "no_leap", "gregorian", "julian"}

InitDt ==
    /\ pc = "start"
    /\ GridIdle /\ FdrIdle /\ FrameIdle
    /\ data \in {<<d>> : d \in 0..MaxDay} \cup [1..2 -> DayVals]
    /\ ref_year \in RefYears
    /\ calendar \in Calendars
    /\ converted = NotDt

Convert ==
    /\ pc = "start"
    /\ converted' = dt_convert_to_datetime64(data, ref_year, calendar)
    /\ pc' = "convert"
    /\ UNCHANGED <<xr_data, xr_data_2, lon_min, lon_bounds, lat_bounds,
                   shifted, shifted2, matched, inside, outside, area,
                   stat_vars, fdr_vars, data, ref_year, calendar, frame_vars>>

NextDt == Convert

SpecDt == InitDt /\ [][NextDt]_vars

----------------------------------------------------------------------------
(* Sequences of calls, in any order and with any arguments, on the same    *)
(* inputs, of which the caller has kept a record.                          *)

MaxCalls == 3

FrameLonVals == {0, 240}
FrameLats == {<<-45, 45>>, <<45, 45>>}
FrameSecondGrids == {MakeGrid(<<0, 240>>, <<-45, 45>>), MakeGrid(<<0>>, <<-45, 45>>)}
FramePValues == {<<<<40, 40>>>>, <<<<500, 10>>, <<60, 80>>>>}
FrameCesmData ==
    {[time |-> <<746, 775>>, time_bnds |-> <<<<730, 762>>, <<762, 788>>>>,
      ref_year |-> 1, calendar |-> "no_leap"],
     [time |-> <<45>>, time_bnds |-> <<<<31, 59>>>>,
      ref_year |-> 2000, calendar |-> "365_day"]}
MinYears == {1701, 2001}

InitFrame ==
    /\ pc = "start"
    /\ \E lon \in SeqsUpTo(FrameLonVals, MaxLon), lat \in FrameLats :
          xr_data = MakeGrid(lon, lat)
    /\ xr_data_2 \in FrameSecondGrids
    /\ lon_min = 0
    /\ lon_bounds = None
    /\ lat_bounds = None
    /\ shifted = NotCalled
    /\ shifted2 = NotCalled
    /\ matched = Failed("not called")
    /\ inside = NotCalled
    /\ outside = NotCalled
    /\ AreaIdle /\ StatIdle /\ DtIdle
    /\ p_values \in FramePValues
    /\ alpha = 10
    /\ p_fdr = NotFdr
    /\ cesm_data \in FrameCesmData
    /\ given = <<xr_data, xr_data_2, p_values, cesm_data>>
    /\ last = NoCall
    /\ ncalls = 0

\* What every call of a sequence leaves alone.
FrameKept ==
    /\ pc' = "calls"
    /\ ncalls' = ncalls + 1
    /\ UNCHANGED <<lon_min, lon_bounds, lat_bounds, shifted, shifted2, matched,
                   inside, outside, area, stat_vars, alpha, p_fdr, dt_vars, given>>

FrameMatch ==
    /\ ncalls < MaxCalls
    /\ last' = Call("xr_check_lon_lat_match",
                    xr_check_lon_lat_match(xr_data, xr_data_2).status, <<>>)
    /\ xr_data' = After(xr_data, <<>>)
    /\ xr_data_2' = After(xr_data_2, <<>>)
    /\ UNCHANGED <<p_values, cesm_data>>
    /\ FrameKept

FrameShift ==
    /\ ncalls < MaxCalls
    /\ \E lm \in LonMins :
       \E ws \in {shift_writes(Input, xr_data, lm)} :
          /\ last' = Call("xr_shift_lon", xr_shift_lon(xr_data, lm).status, ws)
          /\ xr_data' = After(xr_data, ws)
    /\ UNCHANGED <<xr_data_2, p_values, cesm_data>>
    /\ FrameKept

FrameArea ==
    /\ ncalls < MaxCalls
    /\ \E status \in {xr_area(xr_data).status} :
       \E ws \in {area_writes(xr_data, status)} :
          /\ last' = Call("xr_area", status, ws)
          /\ xr_data' = After(xr_data, ws)
    /\ UNCHANGED <<xr_data_2, p_values, cesm_data>>
    /\ FrameKept

FrameMask ==
    /\ ncalls < MaxCalls
    /\ \E lb \in LonBoundsSet, ltb \in LatBoundsSet, how \in {"inside", "outside", "around"} :
       \E ws \in {mask_writes(Input, xr_data, lb, ltb)} :
          /\ last' = Call("xr_mask_bounds",
                          xr_mask_bounds(xr_data, lb, ltb, how).status, ws)
          /\ xr_data' = After(xr_data, ws)
    /\ UNCHANGED <<xr_data_2, p_values, cesm_data>>
    /\ FrameKept

FrameStat ==
    /\ ncalls < MaxCalls
    /\ \E st \in Stats, lb \in StatLonBounds, ltb \in StatLatBounds :
       \E ws \in {stat_writes(Input, xr_data, lb, ltb,
                                xr_mask_bounds(xr_data, lb, ltb, "inside").status,
                                xr_area(xr_data).status)} :
          /\ last' = Call("xr_area_weighted_stat",
                          xr_area_weighted_stat(xr_data, st, lb, ltb, LonLat, LonLat,
                                                "DataArray", 0).status, ws)
          /\ xr_data' = After(xr_data, ws)
    /\ UNCHANGED <<xr_data_2, p_values, cesm_data>>
    /\ FrameKept

FrameFdr ==
    /\ ncalls < MaxCalls
    /\ \E al \in Alphas : last' = Call("stats_fdr", stats_fdr(p_values, al).status, <<>>)
    /\ p_values' = After(p_values, <<>>)
    /\ UNCHANGED <<xr_data, xr_data_2, cesm_data>>
    /\ FrameKept

FrameCesm ==
    /\ ncalls < MaxCalls
    /\ \E my \in MinYears :
       \E ws \in {cesm_writes(Input, cesm_data, my)} :
          /\ last' = Call("cesm_time_from_bnds",
                          cesm_time_from_bnds(cesm_data, my).status, ws)
          /\ cesm_data' = After(cesm_data, ws)
    /\ UNCHANGED <<xr_data, xr_data_2, p_values>>
    /\ FrameKept

NextFrame ==
    \/ FrameMatch
    \/ FrameShift
    \/ FrameArea
    \/ FrameMask
    \/ FrameStat
    \/ FrameFdr
    \/ FrameCesm

SpecFrame == InitFrame /\ [][NextFrame]_vars

----------------------------------------------------------------------------
(* Vocabulary of the properties.                                           *)

StrictlyIncreasing(s) == \A i, k \in DOMAIN s : i < k => s[i] < s[k]
StrictlyDecreasing(s) == \A i, k \in DOMAIN s : i < k => s[i] > s[k]
StrictlyMonotonic(s) == StrictlyIncreasing(s) \/ StrictlyDecreasing(s)

\* The width of the longitude range the array covers.
Span(s) == SeqMax(s) - SeqMin(s)

\* Less than one full circle: no two longitudes are 360 or more apart.
WithinCircle(s) == Span(s) < 360

InWindow(v, lo) == lo <= v /\ v < lo + 360

ShiftCalled == pc \in {"shift", "again", "back"}

----------------------------------------------------------------------------
(* Properties of xr_shift_lon.                                             *)

\* C1 (as claimed): for every strictly monotonic longitude array and every
\* lon_min, every longitude of xr_shift_lon's result lies in
\* [lon_min, lon_min+360).
C1_ShiftedIntoWindow ==
    (ShiftCalled /\ StrictlyMonotonic(xr_data.lon))
        => /\ shifted.status = "ok"
           /\ \A i \in DOMAIN shifted.grid.lon : InWindow(shifted.grid.lon[i], lon_min)

\* C2 (as claimed): for every strictly monotonic input and every lon_min the
\* returned longitudes are strictly monotonic in the input's direction.
C2_MonotonicSameDirection ==
    (ShiftCalled /\ StrictlyMonotonic(xr_data.lon))
        => /\ shifted.status = "ok"
           /\ StrictlyIncreasing(xr_data.lon) => StrictlyIncreasing(shifted.grid.lon)
           /\ StrictlyDecreasing(xr_data.lon) => StrictlyDecreasing(shifted.grid.lon)

\* C2 (amended): for every strictly monotonic input whose longitudes span
\* less than 360 degrees, and every lon_min, the returned longitudes are
\* strictly monotonic in the input's direction (minimum first and maximum
\* last for an increasing input, the reverse for a decreasing one).
C2_MonotonicWithinCircle ==
    (ShiftCalled /\ StrictlyMonotonic(xr_data.lon) /\ WithinCircle(xr_data.lon))
        => /\ shifted.status = "ok"
           /\ StrictlyIncreasing(xr_data.lon) =>
                 /\ StrictlyIncreasing(shifted.grid.lon)
                 /\ shifted.grid.lon[1] = SeqMin(shifted.grid.lon)
                 /\ shifted.grid.lon[Len(shifted.grid.lon)] = SeqMax(shifted.grid.lon)
           /\ StrictlyDecreasing(xr_data.lon) =>
                 /\ StrictlyDecreasing(shifted.grid.lon)
                 /\ shifted.grid.lon[1] = SeqMax(shifted.grid.lon)
                 /\ shifted.grid.lon[Len(shifted.grid.lon)] = SeqMin(shifted.grid.lon)

\* A decreasing grid of several longitudes, within one circle, that the
\* shift has wrapped and rotated.
C2_Witness ==
    /\ pc = "shift"
    /\ Len(xr_data.lon) >= 3
    /\ StrictlyDecreasing(xr_data.lon)
    /\ WithinCircle(xr_data.lon)
    /\ shifted.status = "ok"
    /\ shifted.grid.data # xr_data.data
    /\ StrictlyDecreasing(shifted.grid.lon)

\* C3 (as claimed): for every strictly monotonic grid g with minimum
\* longitude m and every X, shifting to X and then back to m succeeds and
\* returns g's longitudes, order and data.
C3_RoundTrip ==
    (pc = "back" /\ StrictlyMonotonic(xr_data.lon))
        => /\ shifted2.status = "ok"
           /\ shifted2.grid = xr_data

\* C3 (amended): for every strictly monotonic grid g whose longitudes span
\* less than 360 degrees, with minimum longitude m, and every X, shifting
\* to X and then back to m succeeds and returns g's longitudes, order and
\* data.
C3_RoundTripWithinCircle ==
    (pc = "back" /\ StrictlyMonotonic(xr_data.lon) /\ WithinCircle(xr_data.lon))
        => /\ shifted2.status = "ok"
           /\ shifted2.grid = xr_data

\* A grid that the first shift wrapped and rotated and the second restored.
C3_Witness ==
    /\ pc = "back"
    /\ Len(xr_data.lon) >= 2
    /\ StrictlyMonotonic(xr_data.lon)
    /\ WithinCircle(xr_data.lon)
    /\ shifted.grid.lon # xr_data.lon
    /\ shifted.grid.data # xr_data.data
    /\ shifted2.status = "ok"
    /\ shifted2.grid = xr_data

\* C4 (as claimed): for every strictly monotonic grid, shifting twice with
\* the same lon_min gives the same longitude array as shifting once.
C4_Idempotent ==
    (pc = "again" /\ StrictlyMonotonic(xr_data.lon))
        => /\ shifted2.status = "ok"
           /\ shifted2.grid.lon = shifted.grid.lon

\* C5: xr_shift_lon raises ValueError and returns no grid whenever the
\* longitudes are neither strictly increasing nor strictly decreasing (two
\* equal neighbours included).
C5_NonMonotonicRejected ==
    (ShiftCalled /\ ~StrictlyMonotonic(xr_data.lon))
        => /\ shifted.status = "ValueError"
           /\ shifted.grid = NoGrid

\* A longitude array with two equal neighbours, rejected.
C5_Witness ==
    /\ pc = "shift"
    /\ \E i \in 1..(Len(xr_data.lon) - 1) : xr_data.lon[i] = xr_data.lon[i + 1]
    /\ shifted.status = "ValueError"

\* The input position that a rotation by k places at output position i.
Rotated(i, k, n) == ((i - 1 + k) % n) + 1

\* The one offset a call applies to the value v.
Offset(v, lo) == IF v < lo THEN 360 ELSE IF v >= lo + 360 THEN -360 ELSE 0

C23_DataFollowsLongitude ==
    (ShiftCalled /\ StrictlyMonotonic(xr_data.lon))
        => /\ shifted.status = "ok"
           /\ Len(shifted.grid.lon) = Len(xr_data.lon)
           /\ Len(shifted.grid.data) = Len(xr_data.data)
           /\ shifted.grid.lat = xr_data.lat
           /\ \E k \in 0..(Len(xr_data.lon) - 1) :
                 \A i \in DOMAIN xr_data.lon :
                    LET j == Rotated(i, k, Len(xr_data.lon))
                    IN  /\ shifted.grid.lon[i] - xr_data.lon[j] \in {-360, 0, 360}
                        /\ shifted.grid.data[i] = xr_data.data[j]

\* A decreasing grid whose last column the shift has brought to the front,
\* with its longitude raised by 360.
C23_Witness ==
    /\ pc = "shift"
    /\ Len(xr_data.lon) = MaxLon
    /\ StrictlyDecreasing(xr_data.lon)
    /\ shifted.status = "ok"
    /\ shifted.grid.data[1] = xr_data.data[MaxLon]
    /\ shifted.grid.lon[1] = xr_data.lon[MaxLon] + 360

----------------------------------------------------------------------------
(* Properties of xr_check_lon_lat_match.                                   *)

\* C6 (as claimed): for two grids with strictly monotonic coordinates,
\* xr_check_lon_lat_match(A, B) returns True exactly when the longitude
\* arrays are equal element by element in the same order and the latitude
\* arrays likewise, and False otherwise, whatever the data.
C6_MatchIffEqual ==
    (/\ pc = "match"
     /\ StrictlyMonotonic(xr_data.lon) /\ StrictlyMonotonic(xr_data.lat)
     /\ StrictlyMonotonic(xr_data_2.lon) /\ StrictlyMonotonic(xr_data_2.lat))
        => /\ matched.status = "ok"
           /\ matched.value = (xr_data.lon = xr_data_2.lon /\ xr_data.lat = xr_data_2.lat)

----------------------------------------------------------------------------
(* Properties of xr_mask_bounds.                                           *)

\* The bounds in force: None stands for the defaults.
LonBoundsUsed == IF lon_bounds = None THEN <<-180, 180>> ELSE lon_bounds
LatBoundsUsed == IF lat_bounds = None THEN <<-90, 90>> ELSE lat_bounds

\* v brought into [lo, lo+360) by whole turns
Wrap(v, lo) == lo + ((v - lo) % 360)

\* np.nan_to_num of one cell
nan_to_num(c) == IF c = NaN THEN 0 ELSE c[1]

InsideCalled == pc \in {"inside", "both"}

ValidGrid == StrictlyMonotonic(xr_data.lon) /\ StrictlyMonotonic(xr_data.lat)

InRegion(i, j) ==
    /\ Wrap(xr_data.lon[i], LonBoundsUsed[1]) <= LonBoundsUsed[2]
    /\ LatBoundsUsed[1] <= xr_data.lat[j]
    /\ xr_data.lat[j] <= LatBoundsUsed[2]

\* C7 (as claimed): in 'inside' mode a cell keeps its value exactly when
\* its longitude, wrapped into [lon_bounds[0], lon_bounds[0]+360), is
\* <= lon_bounds[1] and its latitude lies in [lat_bounds[0], lat_bounds[1]];
\* every other cell is missing, and kept values are the input's values at
\* the same coordinates.
C7_InsideKeepsWrapped ==
    (InsideCalled /\ ValidGrid)
        => /\ inside.status = "ok"
           /\ inside.grid.lon = xr_data.lon
           /\ inside.grid.lat = xr_data.lat
           /\ \A i \in DOMAIN xr_data.lon, j \in DOMAIN xr_data.lat :
                 inside.grid.data[i][j] =
                     IF InRegion(i, j) THEN xr_data.data[i][j] ELSE NaN

\* Each cell is kept by exactly one of the two results, with its value.
Partition ==
    /\ inside.status = "ok"
    /\ outside.status = "ok"
    /\ \A i \in DOMAIN xr_data.lon, j \in DOMAIN xr_data.lat :
          /\ (inside.grid.data[i][j] = NaN) # (outside.grid.data[i][j] = NaN)
          /\ nan_to_num(inside.grid.data[i][j]) + nan_to_num(outside.grid.data[i][j])
                 = xr_data.data[i][j][1]

\* C8 (as claimed): for every strictly monotonic grid and every pair of
\* bounds the 'inside' and 'outside' results partition the cells, and
\* their sum with missing taken as 0 is the original data.
C8_InsidePlusOutside ==
    (pc = "both" /\ ValidGrid) => Partition

\* C8 (amended): for every strictly monotonic grid whose longitudes span
\* less than 360 degrees and every pair of bounds, the 'inside' and
\* 'outside' results partition the cells, and their sum with missing taken
\* as 0 is the original data.
C8_InsidePlusOutsideWithinCircle ==
    (pc = "both" /\ ValidGrid /\ WithinCircle(xr_data.lon)) => Partition

\* A grid that the masking had to wrap, with cells kept on both sides, one
\* of them on the upper longitude bound.
C8_Witness ==
    /\ pc = "both"
    /\ ValidGrid
    /\ WithinCircle(xr_data.lon)
    /\ xr_shift_lon(xr_data, LonBoundsUsed[1]).grid.data # xr_data.data
    /\ \E i \in DOMAIN xr_data.lon : Wrap(xr_data.lon[i], LonBoundsUsed[1]) = LonBoundsUsed[2]
    /\ \E i \in DOMAIN xr_data.lon, j \in DOMAIN xr_data.lat : inside.grid.data[i][j] # NaN
    /\ \E i \in DOMAIN xr_data.lon, j \in DOMAIN xr_data.lat : outside.grid.data[i][j] # NaN
    /\ Partition

CoordsKept(r) ==
    r.status = "ok" => (r.grid.lon = xr_data.lon /\ r.grid.lat = xr_data.lat)

\* C9 (as claimed): a grid that xr_mask_bounds returns has the input's
\* longitude and latitude arrays; a call on a proper grid that cannot
\* achieve this ends in a RuntimeError.
C9_CoordsKeptOrRuntimeError ==
    /\ InsideCalled =>
          /\ CoordsKept(inside)
          /\ (ValidGrid /\ inside.status # "ok") => inside.status = "RuntimeError"
    /\ pc = "both" =>
          /\ CoordsKept(outside)
          /\ (ValidGrid /\ outside.status # "ok") => outside.status = "RuntimeError"

\* C9 (amended): a grid that xr_mask_bounds returns has the input's
\* longitude and latitude arrays; a call that cannot achieve this ends in
\* an error (the ValueError of the shift back or of the reindexing, or the
\* RuntimeError of the final check) and returns nothing.
C9_CoordsKeptOrError ==
    /\ InsideCalled =>
          /\ CoordsKept(inside)
          /\ inside.status # "ok" =>
                (inside.status \in {"ValueError", "RuntimeError"} /\ inside.grid = NoGrid)
    /\ pc = "both" =>
          /\ CoordsKept(outside)
          /\ outside.status # "ok" =>
                (outside.status \in {"ValueError", "RuntimeError"} /\ outside.grid = NoGrid)

\* A call whose shift back did not restore the longitudes and that still
\* returned a grid, with the input's coordinates.
C9_Witness ==
    /\ InsideCalled
    /\ ValidGrid
    /\ MaskShiftBack(xr_data, lon_bounds, lat_bounds, "inside").status = "ok"
    /\ MaskShiftBack(xr_data, lon_bounds, lat_bounds, "inside").grid.lon # xr_data.lon
    /\ inside.status = "ok"
    /\ inside.grid.lon = xr_data.lon

\* C10 (as claimed): xr_mask_bounds fails with an input error and returns
\* no grid whenever the longitude array or the latitude array is not
\* strictly monotonic.
C10_NonMonotonicRejected ==
    (InsideCalled /\ ~ValidGrid)
        => /\ inside.status = "ValueError"
           /\ inside.grid = NoGrid

\* The cell at longitude index i and latitude index j has its input value.
Kept(i, j) == inside.grid.data[i][j] = xr_data.data[i][j]

\* C27: a bound passed as None to xr_mask_bounds means the axis is
\* unbounded, for every strictly monotonic grid in 'inside' mode: the call
\* returns a grid of the input's shape; with lon_bounds=None a cell is kept
\* or masked by its latitude alone (kept when lat_bounds is None too or
\* holds its latitude); with lat_bounds=None a cell is kept or masked by its
\* longitude alone, so the cells of one longitude are kept or masked
\* together; with both None the result equals the input.
C27_NoneIsUnbounded ==
    (InsideCalled /\ ValidGrid)
        => /\ inside.status = "ok"
           /\ inside.grid.lon = xr_data.lon
           /\ inside.grid.lat = xr_data.lat
           /\ lon_bounds = None =>
                 \A i \in DOMAIN xr_data.lon, j \in DOMAIN xr_data.lat :
                    IF InsideLatCond(xr_data.lat[j], LatBoundsUsed)
                    THEN Kept(i, j)
                    ELSE inside.grid.data[i][j] = NaN
           /\ lat_bounds = None =>
                 \A i \in DOMAIN xr_data.lon, j, k \in DOMAIN xr_data.lat :
                    /\ Kept(i, j) \/ inside.grid.data[i][j] = NaN
                    /\ Kept(i, j) <=> Kept(i, k)
           /\ (lon_bounds = None /\ lat_bounds = None) => inside.grid = xr_data

----------------------------------------------------------------------------
(* Properties of xr_area.                                                  *)

AreaCalled == pc = "area"

\* C11: xr_area fails with ValueError, and returns no area array, whenever
\* the longitude array or the latitude array is neither strictly increasing
\* nor strictly decreasing.
C11_AreaNonMonotonicRejected ==
    (AreaCalled /\ ~(StrictlyMonotonic(xr_data.lon) /\ StrictlyMonotonic(xr_data.lat)))
        => area.status = "ValueError" /\ area.grid = NoGrid

\* The longitudes are fine and the latitudes are not: the call is rejected.
C11_Witness ==
    /\ AreaCalled
    /\ Len(xr_data.lon) >= 2 /\ StrictlyMonotonic(xr_data.lon)
    /\ ~StrictlyMonotonic(xr_data.lat)
    /\ area.status = "ValueError"

\* All steps of s are equal to d.
EvenlySpaced(s, d) == \A i \in 1..(Len(s) - 1) : s[i + 1] - s[i] = d

\* N >= 2 longitudes evenly spaced by 360/N and latitudes evenly spaced from
\* one pole to the other, in either direction.
RegularGlobalGrid(g) ==
    /\ Len(g.lon) >= 2
    /\ \E d \in {360 \div Len(g.lon), 0 - (360 \div Len(g.lon))} :
          EvenlySpaced(g.lon, d) /\ Abs(d) * Len(g.lon) = 360
    /\ Len(g.lat) >= 2
    /\ {g.lat[1], g.lat[Len(g.lat)]} = {-90, 90}
    /\ EvenlySpaced(g.lat, g.lat[2] - g.lat[1])

\* The sum of the cell areas of an area array.
TotalArea(a) ==
    SeqSum([i \in DOMAIN a.lon |-> SeqSum([j \in DOMAIN a.lat |-> a.data[i][j][1]])])

\* C12: on a regular global grid the cell areas of xr_area sum to the
\* sphere's surface within 1e-4 percent: the longitude boundaries span
\* exactly 360 degrees, the clamped latitude boundaries run from exactly
\* one pole to the other, and the sphere-area warning is not emitted.
C12_RegularGridCoversSphere ==
    (AreaCalled /\ RegularGlobalGrid(xr_data))
        => /\ area.status = "ok"
           /\ Abs(TotalArea(area.grid) - SphereArea) <= SphereArea \div 1000000
           /\ Abs(area.lon_b2[Len(area.lon_b2)] - area.lon_b2[1]) = 2 * 360
           /\ {area.lat_b2[1], area.lat_b2[Len(area.lat_b2)]} = {2 * (-90), 2 * 90}
           /\ "sphere" \notin area.warnings

\* A regular global grid of at least three longitudes and three latitudes.
C12_Witness ==
    /\ AreaCalled
    /\ RegularGlobalGrid(xr_data)
    /\ Len(xr_data.lon) >= 3 /\ Len(xr_data.lat) >= 3
    /\ area.status = "ok"
    /\ "sphere" \notin area.warnings

\* The doubled boundaries b of the centres c are the N+1 values the claim
\* gives, and every centre lies strictly between its two boundaries.
BoundariesOf(c, b) ==
    LET N == Len(c)
    IN  /\ Len(b) = N + 1
        /\ b[1] = 2 * c[1] - (c[2] - c[1])
        /\ b[N + 1] = 2 * c[N] + (c[N] - c[N - 1])
        /\ \A i \in 2..N : b[i] = c[i - 1] + c[i]
        /\ \A i \in 1..N : \/ b[i] < 2 * c[i] /\ 2 * c[i] < b[i + 1]
                           \/ b[i] > 2 * c[i] /\ 2 * c[i] > b[i + 1]

\* C13: for an axis of N >= 2 strictly monotonic centres c, xr_area derives
\* exactly N+1 boundaries: b[0] = c[0] - (c[1]-c[0])/2, b[N] = c[N-1] +
\* (c[N-1]-c[N-2])/2 and the mid-points in between, so that (before the
\* latitudes are clamped) every centre lies strictly between its boundaries.
C13_CellBoundaries ==
    (/\ AreaCalled
     /\ Len(xr_data.lon) >= 2 /\ StrictlyMonotonic(xr_data.lon)
     /\ Len(xr_data.lat) >= 2 /\ StrictlyMonotonic(xr_data.lat))
        => /\ area.status = "ok"
           /\ BoundariesOf(xr_data.lon, area.lon_b2)
           /\ BoundariesOf(xr_data.lat, Bounds2(xr_data.lat))

\* An irregular axis of three centres.
C13_Witness ==
    /\ AreaCalled
    /\ area.status = "ok"
    /\ Len(xr_data.lon) = 3
    /\ xr_data.lon[2] - xr_data.lon[1] # xr_data.lon[3] - xr_data.lon[2]
    /\ BoundariesOf(xr_data.lon, area.lon_b2)

\* Both axes strictly monotonic, with at least two points each.
MonotonicAxes(g) ==
    /\ Len(g.lon) >= 2 /\ StrictlyMonotonic(g.lon)
    /\ Len(g.lat) >= 2 /\ StrictlyMonotonic(g.lat)

\* The doubled boundary b brought into [-90, 90].
Clamped2(b) == IF b < 2 * (-90) THEN 2 * (-90) ELSE IF b > 2 * 90 THEN 2 * 90 ELSE b

\* C24: every latitude cell boundary that xr_area uses for the latitude
\* widths lies in [-90, 90]: a boundary that extrapolation placed below -90
\* is -90, one placed above 90 is 90, and a boundary already in range is
\* unchanged; the call neither fails nor warns on that account (its only
\* warnings are those of the longitude widths and of the total area).
C24_LatBoundsClamped ==
    (AreaCalled /\ MonotonicAxes(xr_data))
        => /\ area.status = "ok"
           /\ area.warnings \subseteq {"width", "sphere"}
           /\ Len(area.lat_b2) = Len(xr_data.lat) + 1
           /\ \A k \in DOMAIN area.lat_b2 :
                 /\ 2 * (-90) <= area.lat_b2[k] /\ area.lat_b2[k] <= 2 * 90
                 /\ area.lat_b2[k] = Clamped2(Bounds2(xr_data.lat)[k])

\* Latitudes from pole to pole: the first boundary was below -90, the last
\* above 90, and the ones in between are left where they were.
C24_Witness ==
    /\ AreaCalled
    /\ area.status = "ok"
    /\ Len(xr_data.lat) >= 3
    /\ Bounds2(xr_data.lat)[1] < 2 * (-90)
    /\ Bounds2(xr_data.lat)[Len(xr_data.lat) + 1] > 2 * 90
    /\ area.lat_b2[1] = 2 * (-90)
    /\ area.lat_b2[Len(xr_data.lat) + 1] = 2 * 90
    /\ area.lat_b2[2] = Bounds2(xr_data.lat)[2]
    /\ area.warnings = {}

\* The grid with its longitude axis, its latitude axis or both stored in
\* the other direction.
Flipped(g, flip_lon, flip_lat) ==
    MakeGrid(IF flip_lon THEN Reverse(g.lon) ELSE g.lon,
             IF flip_lat THEN Reverse(g.lat) ELSE g.lat)

\* The position of cell i of an axis of n cells in the flipped axis.
FlippedIndex(i, n, flip) == IF flip THEN n + 1 - i ELSE i

\* C25: xr_area is direction independent: the widths of a strictly
\* decreasing longitude (or latitude) axis are all non-negative and are
\* those of the reversed, increasing axis in reverse order, so that each
\* cell has the same non-negative area whichever way the axes are stored,
\* and the total area is the same.
C25_DirectionIndependent ==
    (AreaCalled /\ MonotonicAxes(xr_data))
        => /\ area.status = "ok"
           /\ \A i \in DOMAIN xr_data.lon, j \in DOMAIN xr_data.lat :
                 area.grid.data[i][j][1] >= 0
           /\ \A flip_lon, flip_lat \in BOOLEAN :
                 \E other \in {xr_area(Flipped(xr_data, flip_lon, flip_lat))} :
                    /\ other.status = "ok"
                    /\ TotalArea(other.grid) = TotalArea(area.grid)
                    /\ \A i \in DOMAIN xr_data.lon, j \in DOMAIN xr_data.lat :
                          area.grid.data[i][j]
                             = other.grid.data[FlippedIndex(i, Len(xr_data.lon), flip_lon)]
                                              [FlippedIndex(j, Len(xr_data.lat), flip_lat)]

\* A grid with both axes decreasing and unevenly spaced longitudes.
C25_Witness ==
    /\ AreaCalled
    /\ area.status = "ok"
    /\ Len(xr_data.lon) = 3
    /\ StrictlyDecreasing(xr_data.lon) /\ StrictlyDecreasing(xr_data.lat)
    /\ xr_data.lon[1] - xr_data.lon[2] # xr_data.lon[2] - xr_data.lon[3]
    /\ area.grid.data[1][1][1] > 0
    /\ area.grid.data[1] # area.grid.data[3]

\* C26: for every input whose longitude and latitude arrays are strictly
\* monotonic with at least two points each, none of xr_area's RuntimeError
\* checks fires: the extended longitude axis is strictly monotonic, no
\* longitude width and no latitude width is negative, and the output
\* coordinates are the input's.
C26_NoRuntimeError ==
    (AreaCalled /\ MonotonicAxes(xr_data))
        => /\ area.status = "ok"
           /\ StrictlyMonotonic(Extended(xr_data.lon))
           /\ \A w \in DOMAIN xr_data.lon :
                 Width(area.lon_b2, StrictlyIncreasing(xr_data.lon))[w] >= 0
           /\ \A w \in DOMAIN xr_data.lat :
                 Width(SinOf(area.lat_b2), StrictlyIncreasing(xr_data.lat))[w] >= 0
           /\ area.grid.lon = xr_data.lon
           /\ area.grid.lat = xr_data.lat

\* Decreasing longitudes and latitudes reaching a pole, where a latitude
\* width is smallest.
C26_Witness ==
    /\ AreaCalled
    /\ area.status = "ok"
    /\ StrictlyDecreasing(xr_data.lon)
    /\ StrictlyDecreasing(xr_data.lat)
    /\ xr_data.lat[1] = 90
    /\ area.grid.lon = xr_data.lon

----------------------------------------------------------------------------
(* Properties of xr_area_weighted_stat.                                    *)

StatCalled == pc = "stat"

BoundsGiven == lon_bounds # None \/ lat_bounds # None

\* The input the function is written for: both axes strictly monotonic
\* with at least two centres, the default coordinate names, and a region
\* that xr_mask_bounds accepts.
ValidStatInput ==
    /\ Len(xr_data.lon) >= 2 /\ StrictlyMonotonic(xr_data.lon)
    /\ Len(xr_data.lat) >= 2 /\ StrictlyMonotonic(xr_data.lat)
    /\ grid_names = LonLat /\ arg_names = LonLat
    /\ BoundsGiven => xr_mask_bounds(xr_data, lon_bounds, lat_bounds, "inside").status = "ok"

\* Cell (i, j) is one that xr_mask_bounds keeps for the region.
InsideCell(i, j) ==
    xr_mask_bounds(xr_data, lon_bounds, lat_bounds, "inside").grid.data[i][j] # NaN

\* The sum of data * area and the sum of area over the cells of the region.
RegionSum ==
    SeqSum([i \in DOMAIN xr_data.lon |-> SeqSum([j \in DOMAIN xr_data.lat |->
               IF InsideCell(i, j)
               THEN xr_data.data[i][j][1] * xr_area(xr_data).grid.data[i][j][1]
               ELSE 0])])
RegionArea ==
    SeqSum([i \in DOMAIN xr_data.lon |-> SeqSum([j \in DOMAIN xr_data.lat |->
               IF InsideCell(i, j) THEN xr_area(xr_data).grid.data[i][j][1] ELSE 0])])

ConstantField ==
    \A i \in DOMAIN xr_data.lon : \A j \in DOMAIN xr_data.lat :
        xr_data.data[i][j] = <<FieldConst>>

\* C14 (as claimed): with lon_bounds or lat_bounds given, the mean that
\* xr_area_weighted_stat returns is the sum of data * area over the cells
\* inside the region divided by the sum of area over those same cells, so
\* that the mean of a constant field c is c.
C14_MeanOverRegion ==
    (/\ StatCalled /\ stat = "mean" /\ BoundsGiven
     /\ ValidStatInput /\ weighted.status = "ok" /\ RegionArea > 0)
        => /\ weighted.value = Frac(RegionSum, RegionArea)
           /\ ConstantField => weighted.value = Frac(FieldConst, 1)

\* C15 (as claimed): a call with stat 'sum' or 'mean' on a valid input
\* completes whether the input is purely 2-D, carries a time dimension of
\* any length, or is a Dataset of several variables.
C15_CompletesForEverySlice ==
    (StatCalled /\ stat \in {"sum", "mean"} /\ ValidStatInput)
        => weighted.status = "ok"

\* C16 (as claimed): a call with a stat other than 'mean' or 'sum' on a
\* valid input fails with an error (ValueError) and returns no value.
C16_UnknownStatFails ==
    (StatCalled /\ stat \notin {"sum", "mean"} /\ ValidStatInput)
        => weighted.status = "ValueError" /\ weighted.value = NoValue

\* C16 (amended): a call with a stat other than 'mean' or 'sum' returns no
\* statistic and never fails on account of the stat.  An error raised by
\* the masking, the area computation or the coordinate cross-check comes
\* out unchanged; otherwise, and for every valid input of any kind, the
\* call warns of the unrecognised option and returns the sentinel -1.
C16_UnknownStatSentinel ==
    (StatCalled /\ stat \notin {"sum", "mean"})
        => /\ weighted.status = "ok"
                => weighted.value = Sentinel /\ "stat" \in weighted.warnings
           /\ weighted.status # "ok"
                => /\ weighted.status \in {"KeyError", "ValueError", "IndexError",
                                           "RuntimeError"}
                   /\ weighted.value = NoValue
           /\ ValidStatInput => weighted.status = "ok"

\* An unrecognised stat on a valid Dataset with a time dimension.
C16_Witness ==
    /\ StatCalled /\ stat = "median" /\ ValidStatInput
    /\ kind = "Dataset" /\ ntime > 1
    /\ weighted.status = "ok" /\ weighted.value = Sentinel

\* C17 (as claimed): on a grid whose coordinates are named 'longitude' and
\* 'latitude', a call with the matching lon_name and lat_name has the
\* outcome of the same call on the same grid named 'lon' and 'lat', and the
\* coordinate cross-check does not raise.
C17_RenamedSameStatistic ==
    (StatCalled /\ grid_names = Renamed /\ arg_names = Renamed)
        => /\ weighted = xr_area_weighted_stat(xr_data, stat, lon_bounds, lat_bounds,
                                               LonLat, LonLat, kind, ntime)
           /\ weighted.status # "KeyError"

----------------------------------------------------------------------------
(* Properties of stats_fdr.                                                *)

FdrCalled == pc = "fdr"

\* The p-values in ascending order: Ranked[i] is the i-th smallest.
Ranked == np_sort(Flatten(p_values))

\* The ranks i with p(i) <= (i/n) * alpha.
SatisfyingRanks ==
    {i \in 1..Len(Ranked) : Ranked[i] * Len(Ranked) <= 10 * i * alpha}

SetMax(S) == CHOOSE v \in S : \A w \in S : v >= w

\* C19 (as claimed): for every array of n p-values and every alpha in
\* (0, 1), stats_fdr returns the largest (i/n) * alpha over all the ranks i
\* whose i-th smallest p-value satisfies p(i) <= (i/n) * alpha, and 0 when
\* no rank satisfies it.
C19_LargestOverAllRanks ==
    (FdrCalled /\ 0 < alpha /\ alpha < 100)
        => /\ p_fdr.status = "ok"
           /\ p_fdr.value = IF SatisfyingRanks = {} THEN Frac(0, 1)
                            ELSE Frac(SetMax(SatisfyingRanks) * alpha, Len(Ranked) * 100)

----------------------------------------------------------------------------
(* Properties of dt_convert_to_datetime64.                                 *)

DtCalled == pc = "convert"

\* The date d mod 365 days after 1 January of year y + d div 365 in a
\* calendar without leap days.
NoLeapDate(y, d) == MonthDay(y + (d \div 365), MonthLengths(FALSE), 1, d % 365)

\* C20 (as claimed): with calendar '365_day' or 'no_leap', every
\* non-negative whole number of days d is mapped to the date d mod 365 days
\* after 1 January of year Y + d div 365 of the calendar without leap days,
\* and no result is a 29 February.
C20_NoLeapDates ==
    (DtCalled /\ calendar \in {"365_day", "no_leap"} /\ SeqMin(data) >= 0)
        => /\ converted.status = "ok"
           /\ \A k \in DOMAIN data :
                 /\ converted.dates[k] = NoLeapDate(ref_year, data[k])
                 /\ ~IsFeb29(converted.dates[k])

----------------------------------------------------------------------------
(* The inputs after the calls.                                             *)

\* C18: no operation changes its input: after any sequence of calls of
\* xr_check_lon_lat_match, xr_shift_lon, xr_area, xr_mask_bounds,
\* xr_area_weighted_stat, stats_fdr and cesm_time_from_bnds, whether they
\* return or end in an error, every input has the coordinates, data and
\* order the caller recorded before the calls.
C18_InputsUnchanged ==
    pc = "calls" => <<xr_data, xr_data_2, p_values, cesm_data>> = given

\* A sequence that ends with a call of xr_mask_bounds which rewrote the
\* longitudes of its working copy.
C18_Witness ==
    /\ ncalls = MaxCalls
    /\ last.call = "xr_mask_bounds"
    /\ last.writes > 0
    /\ <<xr_data, xr_data_2, p_values, cesm_data>> = given

----------------------------------------------------------------------------
(* Properties of cesm_time_from_bnds.                                      *)

CesmCalled == pc = "calls" /\ last.call = "cesm_time_from_bnds"

\* The reference year of the units, raised to min_year when it is lower.
ReferenceYear(d, min_year) == IF d.ref_year < min_year THEN min_year ELSE d.ref_year

\* The mid-points of time_bnds as dates counted from the given year.
MidPointDates(d, y) == dt_convert_to_datetime64(TimeBndsMid(d), y, d.calendar).dates

\* C21: cesm_time_from_bnds(data, min_year) completes and returns a copy
\* whose time values are the mid-points of time_bnds converted to dates,
\* counted from min_year when the reference year of the units is lower.
C21_TimeFromBnds ==
    CesmCalled =>
        /\ last.status = "ok"
        /\ \A my \in MinYears :
              /\ cesm_time_from_bnds(cesm_data, my).status = "ok"
              /\ cesm_time_from_bnds(cesm_data, my).dataset.time
                    = MidPointDates(cesm_data, ReferenceYear(cesm_data, my))

====
